---- MODULE Spec2Model ----
(***************************************************************************)
(* Fly-scan tomography with an encoder-driven pulse generator (PSO):       *)
(* a model of tomoscan/tomoscan_pso.py, class TomoScanPSO.                 *)
(*                                                                         *)
(* Angles are exact rationals with denominator AngleDen (one unit is       *)
(* 1e-5 degree), times are milliseconds, speeds are pairs num/den in       *)
(* units per millisecond.  Floating-point rounding noise is not modelled.  *)
(* time, os and math are used by the source as the standard library        *)
(* modules of those names.  begin_scan's call self.compute_positions() is  *)
(* taken to run compute_positions_PSO, the only planner of the class.      *)
(*                                                                         *)
(* A control-point access that fails raises, and the exception unwinds     *)
(* the method that made the access.  The generic scan driver (base class   *)
(* TomoScan) is not part of the modelled file: its run loop, its hooks and *)
(* save_configuration, move_sample_in, wait_camera_done are modelled from  *)
(* the design document.  The rotation_stop the base class hands to the     *)
(* planner is the start plus the requested range, which ends at the last   *)
(* angle or one step beyond it; the per-frame time and the maximum         *)
(* rotation speed are base class values.                                   *)
(***************************************************************************)
EXTENDS Integers, Sequences, FiniteSets, TLC

\* ------------------------------------------------------------------ bounds
MaxAngles == 3
MaxFaults == 1

\* ------------------------------------------------------- units and inputs
AngleDen == 10^5
\* requested rotation steps (0.25, 0.24999, 0.025 and 0.001 degree)
StepChoices == {25000, 24999, 2500, 100}
\* encoder pulses per rotation of the stage
PulsesChoices == {36000, 18000}
\* motor acceleration times, ms
AccelChoices == {0, 300, 400}
\* per-frame times of the camera, ms
FrameTimeChoices == {100, 10}
\* hardware maximum rotation speed, units per ms (base class attribute)
max_rotation_speed == [num |-> 500, den |-> 1]

\* ------------------------------------------------------------- arithmetic
Abs(x) == IF x < 0 THEN -x ELSE x

\* Python 3 round() of the non-negative rational num/den: nearest integer,
\* a tie goes to the even neighbour.
PyRound(num, den) ==
    LET q == num \div den
        r == num % den
    IN  IF 2 * r < den THEN q
        ELSE IF 2 * r > den THEN q + 1
        ELSE IF q % 2 = 0 THEN q ELSE q + 1

\* comparison of two speeds num/den (den > 0)
SpeedLeq(a, b) == a.num * b.den <= b.num * a.den

\* math.ceil of the non-negative rational num/den (den > 0)
PyCeil(num, den) == IF num % den = 0 THEN num \div den ELSE (num \div den) + 1

\* ------------------------------------------------------------------ state
VARIABLES
    epics_pvs,        \* soft control points: user settings and planner outputs
    requested_range,  \* sign of the requested angular range (+1 / -1)
    rotation_start, rotation_step, rotation_stop, num_angles, motor_speed,
    cam,              \* camera control points as the camera IOC holds them
    camQueue,         \* camera writes issued without wait, not yet processed
    pso,              \* pulse generator of the stage controller
    motor,            \* rotation stage: speed, position, commanded target
    sampleIn,         \* sample carrier position
    phase,            \* ScanPhase of the coordinator
    pc,               \* position of the scan thread
    stm,              \* set_trigger_mode call in progress
    psoIdx,           \* next command of program_PSO / cleanup_PSO
    plan,             \* locals of the planner and the programmer, kept for inspection
    faults,           \* bus faults so far
    hist              \* observations of the current scan

vars == << epics_pvs, requested_range, rotation_start, rotation_step,
           rotation_stop, num_angles, motor_speed, cam, camQueue, pso, motor,
           sampleIn, phase, pc, stm, psoIdx, plan, faults, hist >>

geomVars == << rotation_start, rotation_step, rotation_stop, num_angles, motor_speed >>

hwVars == << cam, camQueue, pso, motor, sampleIn >>

\* ------------------------------------------------------------------ inputs
\* per-frame time of the camera, ms (base class method)
compute_frame_time == epics_pvs.FrameTime

\* One scan request: start angle, requested step, angle count, range sign,
\* motor direction control point (0 positive, 1 negative), acceleration
\* time, encoder pulses per rotation and per-frame time.
Request(step, n, sign, dir, accl, ppr, frame) ==
    [RotationStart |-> 0, RotationStep |-> step, NumAngles |-> n,
     RotationDirection |-> dir, RotationAccelTime |-> accl,
     PSOPulsesPerRotation |-> ppr, FrameTime |-> frame,
     ExternalTriggerSource |-> "Line2",
     PSOEncoderInput |-> 3, EncoderPulsesPerStep |-> 0,
     startTaxi |-> 0, endTaxi |-> 0, sign |-> sign]

\* every request of the bounded input space
AllRequests ==
    { Request(step, n, sign, dir, accl, ppr, frame) :
        step \in StepChoices, n \in 1..MaxAngles, sign \in {1, -1},
        dir \in {0, 1}, accl \in AccelChoices, ppr \in PulsesChoices,
        frame \in FrameTimeChoices }

\* the requests the whole-scan specification runs
ScanRequests ==
    { Request(step, n, sign, 0, 300, 36000, 100) :
        step \in {24999, 100}, n \in {1, MaxAngles}, sign \in {1, -1} }

\* ---------------------------------------------------------- initial state
CamInit ==
    [CamAcquire |-> "Acquire", CamImageMode |-> "Continuous",
     CamTriggerMode |-> "Off", CamTriggerSource |-> "Software",
     CamTriggerOverlap |-> 0, CamExposureMode |-> "Timed",
     CamArrayCallbacks |-> "Disable", CamFrameRateEnable |-> 1,
     CamNumImages |-> 1, FPNumCapture |-> 0, FPCapture |-> "Done"]

PsoInit ==
    [armed |-> FALSE, windowMask |-> FALSE, written |-> {}, distance |-> 0,
     winStart |-> 0, winEnd |-> 0]

HistInit ==
    [writes |-> << >>, termination |-> "none", endSteps |-> << >>,
     endResult |-> "none", saveFailed |-> FALSE,
     psoLog |-> << >>, num_frames |-> 0, endFault |-> FALSE,
     collecting |-> FALSE, wait_timeout |-> 0]

PlanInit ==
    [accel_num |-> 0, accel_den |-> 1, delta_encoder_counts |-> 0,
     warned |-> FALSE, taxi_dist |-> 0, stop_used |-> 0, user_direction |-> 1,
     overall_sense |-> 1, window_start |-> 0, window_end |-> 0, ran |-> FALSE,
     windowed |-> FALSE, published |-> FALSE, raw_num |-> 0,
     planner_sense |-> 1]

InitWith(requests) ==
    /\ \E r \in requests :
          /\ epics_pvs = [x \in DOMAIN r \ {"sign"} |-> r[x]]
          /\ requested_range = r.sign
    /\ rotation_start = 0
    /\ rotation_step = 0
    /\ rotation_stop = 0
    /\ num_angles = 0
    /\ motor_speed = max_rotation_speed
    /\ cam = CamInit
    /\ camQueue = << >>
    /\ pso = PsoInit
    /\ motor = [speed |-> max_rotation_speed, pos |-> 0, target |-> 0]
    /\ sampleIn = TRUE
    /\ phase = "Idle"
    /\ pc = "idle"
    /\ stm = [mode |-> "FreeRun", num_images |-> 1, i |-> 0, ret |-> "idle"]
    /\ psoIdx = 0
    /\ plan = PlanInit
    /\ faults = 0
    /\ hist = HistInit

Init == InitWith(ScanRequests)

\* ------------------------------------------------- control point interface
\* one write of a control point: put(val) or put(val, wait=True)
W(pv, val, wait) == [pv |-> pv, val |-> val, wait |-> wait]

\* the camera IOC processes one write
CamApply(c, w) == [c EXCEPT ![w.pv] = w.val]

\* the camera IOC processes a queue of writes in the order they were issued
RECURSIVE CamFlush(_, _)
CamFlush(c, q) == IF q = << >> THEN c ELSE CamFlush(CamApply(c, Head(q)), Tail(q))

\* put on a camera control point: with wait the call returns once the write
\* (and every earlier write on the same circuit) has been processed; without
\* wait the write is in flight when the call returns
CamPut(w) ==
    IF w.wait
    THEN /\ cam' = CamApply(CamFlush(cam, camQueue), w)
         /\ camQueue' = << >>
    ELSE /\ camQueue' = Append(camQueue, w)
         /\ cam' = cam

\* the camera IOC processes the oldest write in flight
CameraDeliver ==
    /\ camQueue # << >>
    /\ cam' = CamApply(cam, Head(camQueue))
    /\ camQueue' = Tail(camQueue)
    /\ UNCHANGED << epics_pvs, requested_range, geomVars, pso, motor, sampleIn,
                    phase, pc, stm, psoIdx, plan, faults, hist >>

\* the camera has taken its last image of a multiple-image acquisition:
\* on its own clock with triggering off, on the generator's pulses (stage in
\* flight, generator armed) with triggering on
CameraComplete ==
    /\ cam.CamAcquire = "Acquire"
    /\ cam.CamImageMode = "Multiple"
    /\ \/ cam.CamTriggerMode = "Off"
       \/ cam.CamTriggerMode = "On" /\ pso.armed /\ motor.pos # motor.target
    /\ cam' = [cam EXCEPT !.CamAcquire = "Done"]
    /\ UNCHANGED << epics_pvs, requested_range, geomVars, camQueue, pso, motor,
                    sampleIn, phase, pc, stm, psoIdx, plan, faults, hist >>

\* the stage reaches the target of a move issued without wait
MotorArrive ==
    /\ motor.pos # motor.target
    /\ motor' = [motor EXCEPT !.pos = motor.target]
    /\ UNCHANGED << epics_pvs, requested_range, geomVars, cam, camQueue, pso,
                    sampleIn, phase, pc, stm, psoIdx, plan, faults, hist >>

\* ------------------------------------------------------- set_trigger_mode
\* Stop acquisition if we are acquiring
StopWrite == W("CamAcquire", "Done", TRUE)

\* variant: external triggering is left as it is
FreeRunWrites_trigger_kept ==
    << W("CamImageMode", "Continuous", TRUE),
       W("CamAcquire", "Acquire", FALSE) >>

FreeRunWrites ==
    << W("CamImageMode", "Continuous", TRUE),
       W("CamTriggerMode", "Off", TRUE),
       W("CamAcquire", "Acquire", FALSE) >>

InternalWrites(num_images) ==
    << W("CamTriggerMode", "Off", TRUE),
       W("CamImageMode", "Multiple", FALSE),
       W("CamNumImages", num_images, TRUE) >>

\* variant: triggering is switched on before the image count is written
PSOExternalWrites_on_early(cam_trig_source, angles) ==
    << W("CamTriggerMode", "Off", TRUE),
       W("CamTriggerSource", cam_trig_source, TRUE),
       W("CamTriggerOverlap", 1, TRUE),
       W("CamExposureMode", "Timed", TRUE),
       W("CamImageMode", "Multiple", FALSE),
       W("CamArrayCallbacks", "Enable", FALSE),
       W("CamFrameRateEnable", 0, FALSE),
       W("CamTriggerMode", "On", TRUE),
       W("CamNumImages", angles, TRUE) >>

PSOExternalWrites(cam_trig_source, angles) ==
    << W("CamTriggerMode", "Off", TRUE),
       W("CamTriggerSource", cam_trig_source, TRUE),
       W("CamTriggerOverlap", 1, TRUE),
       W("CamExposureMode", "Timed", TRUE),
       W("CamImageMode", "Multiple", FALSE),
       W("CamArrayCallbacks", "Enable", FALSE),
       W("CamFrameRateEnable", 0, FALSE),
       W("CamNumImages", angles, TRUE),
       W("CamTriggerMode", "On", TRUE) >>

\* variant: the acquisition stop is issued without wait
set_trigger_mode_writes_nowait(trigger_mode, num_images) ==
    << W("CamAcquire", "Done", FALSE) >> \o
    ( IF trigger_mode = "FreeRun" THEN FreeRunWrites
      ELSE IF trigger_mode = "Internal" THEN InternalWrites(num_images)
      ELSE PSOExternalWrites(epics_pvs.ExternalTriggerSource, num_angles) )

\* the writes of set_trigger_mode(trigger_mode, num_images), in program order
set_trigger_mode_writes(trigger_mode, num_images) ==
    << StopWrite >> \o
    ( IF trigger_mode = "FreeRun" THEN FreeRunWrites
      ELSE IF trigger_mode = "Internal" THEN InternalWrites(num_images)
      ELSE PSOExternalWrites(epics_pvs.ExternalTriggerSource, num_angles) )

\* call set_trigger_mode(trigger_mode, num_images) and continue at ret
CallSetTriggerMode(trigger_mode, num_images, ret, h) ==
    /\ stm' = [mode |-> trigger_mode, num_images |-> num_images, i |-> 1, ret |-> ret]
    /\ pc' = "set_trigger_mode"
    /\ hist' = [h EXCEPT !.writes = << >>]

\* one write of the set_trigger_mode call in progress
set_trigger_mode ==
    /\ pc = "set_trigger_mode"
    /\ stm.i > 0
    /\ LET ws == set_trigger_mode_writes(stm.mode, stm.num_images)
           w == ws[stm.i]
       IN  /\ CamPut(w)
           /\ hist' = [hist EXCEPT
                        !.writes = Append(@, w),
                        !.endSteps = IF stm.i = Len(ws) /\ stm.ret = "end_speed"
                                     THEN Append(@, "freerun") ELSE @]
           /\ IF stm.i = Len(ws)
              THEN /\ stm' = [stm EXCEPT !.i = 0]
                   /\ pc' = stm.ret
              ELSE /\ stm' = [stm EXCEPT !.i = @ + 1]
                   /\ pc' = pc
    /\ UNCHANGED << epics_pvs, requested_range, geomVars, pso, motor, sampleIn,
                    phase, psoIdx, plan, faults >>

\* ------------------------------------------------------------- exceptions
\* An exception leaves the method that raised it.  Raised in begin or in a
\* collection phase it reaches the scan driver, whose cleanup clause runs
\* end_scan; raised inside end_scan it ends the scan thread.
Raise(kind, h) ==
    /\ stm' = [stm EXCEPT !.i = 0]
    /\ psoIdx' = 0
    /\ IF phase = "Completing"
       THEN /\ pc' = "idle"
            /\ phase' = "Idle"
            /\ hist' = [h EXCEPT !.endResult = "raised"]
       ELSE /\ pc' = "end_scan"
            /\ phase' = "Completing"
            /\ hist' = [h EXCEPT !.termination = kind]

\* positions of the scan thread that access no control point
NoAccess == {"idle", "begin_speed", "driver_dark", "driver_flat", "end_save"}

\* a control-point put or get of the current step fails
BusFault ==
    /\ pc \notin NoAccess
    /\ faults < MaxFaults
    /\ faults' = faults + 1
    /\ Raise("busfail", [hist EXCEPT !.endFault = (phase = "Completing")])
    /\ UNCHANGED << epics_pvs, requested_range, geomVars, hwVars, plan >>

\* ----------------------------------------------------------------- senses
\* Encoder direction compared to dial coordinates
encoder_dir == -1

\* _compute_senses: << overall sense, user direction >>
compute_senses ==
    LET motor_dir == 1 - epics_pvs.RotationDirection * 2
        user_direction == IF rotation_stop > rotation_start THEN 1 ELSE -1
    IN  << user_direction * motor_dir * encoder_dir, user_direction >>

\* ---------------------------------------------------------------- planner
\* variant: the number of steps is rounded down
TaxiDist_floor(accel_num, accel_den, step) ==
    ((2 * (accel_num \div (accel_den * step)) + 1) * step) \div 2

\* taxi distance: an integer number of steps >= accel distance plus half a
\* step; the accel distance is accel_num / accel_den
TaxiDist(accel_num, accel_den, step) ==
    ((2 * PyCeil(accel_num, accel_den * step) + 1) * step) \div 2

\* the encoder count spacing of one step: rotation_step * pulses / 360, rounded
DeltaEncoderCounts(step, ppr) == PyRound(step * ppr, 360 * AngleDen)

\* Where will the last point actually be?
LastPoint(step, user_direction) ==
    rotation_start + (num_angles - 1) * step * user_direction

compute_positions_PSO ==
    /\ pc = "compute_positions"
    /\ LET senses == compute_senses
           user_direction == senses[2]
           accel_num == epics_pvs.RotationAccelTime * motor_speed.num
           accel_den == 2 * motor_speed.den
           raw_num == rotation_step * epics_pvs.PSOPulsesPerRotation
           raw_den == 360 * AngleDen
           delta == DeltaEncoderCounts(rotation_step, epics_pvs.PSOPulsesPerRotation)
           warn == Abs(raw_num - delta * raw_den) > raw_den \div 10000
           step == (delta * raw_den) \div epics_pvs.PSOPulsesPerRotation
           p1 == [plan EXCEPT !.accel_num = accel_num, !.accel_den = accel_den,
                              !.delta_encoder_counts = delta, !.warned = warn,
                              !.user_direction = user_direction,
                              !.overall_sense = senses[1], !.ran = FALSE,
                              !.windowed = FALSE, !.published = TRUE,
                              !.raw_num = raw_num, !.planner_sense = senses[1]]
       IN  /\ rotation_step' = step
           /\ IF step = 0
              THEN \* accel_dist / self.rotation_step: ZeroDivisionError
                   /\ epics_pvs' = [epics_pvs EXCEPT !.EncoderPulsesPerStep = delta,
                                                     !.RotationStep = step]
                   /\ plan' = p1
                   /\ rotation_stop' = rotation_stop
                   /\ Raise("error", hist)
              ELSE LET taxi_dist == TaxiDist(accel_num, accel_den, step)
                   IN  /\ epics_pvs' =
                             [epics_pvs EXCEPT
                                !.EncoderPulsesPerStep = delta,
                                !.RotationStep = step,
                                !.startTaxi = rotation_start - taxi_dist * user_direction,
                                !.endTaxi = rotation_stop + taxi_dist * user_direction]
                       /\ plan' = [p1 EXCEPT !.taxi_dist = taxi_dist,
                                             !.stop_used = rotation_stop, !.ran = TRUE]
                       /\ rotation_stop' = LastPoint(step, user_direction)
                       /\ pc' = "program_PSO"
                       /\ psoIdx' = 1
                       /\ UNCHANGED << phase, stm, hist >>
    /\ UNCHANGED << requested_range, rotation_start, num_angles, motor_speed,
                    hwVars, faults >>

\* ------------------------------------------------------------- programmer
\* margin, in encoder counts, on each side of the window
WindowMargin == 5

\* variant: the window is laid out along the sense of motion
Window_along_sense(pulses_per_step, angles, overall_sense) ==
    LET range_start == -PyRound(pulses_per_step, 2) * overall_sense
        range_length == pulses_per_step * angles
    IN  [start |-> range_start, end |-> range_start + range_length * overall_sense]

\* window function parameters in encoder counts, referenced from the stage
\* location where the generator is armed
Window(pulses_per_step, angles, overall_sense) ==
    LET range_start == -PyRound(pulses_per_step, 2) * overall_sense
        range_length == pulses_per_step * angles
    IN  IF overall_sense > 0
        THEN [start |-> range_start, end |-> range_start + range_length]
        ELSE [start |-> range_start - range_length, end |-> range_start]

\* the steps of program_PSO, in program order: three stage writes, then the
\* commands sent to the controller
program_PSO_steps ==
    << "SPEED_MAX", "MOVE_START", "SPEED_SCAN",
       "RESET", "OUTPUT_CONTROL", "PULSE", "OUTPUT_WINDOW_MASK", "TRACK_INPUT",
       "DISTANCE", "WINDOW_INPUT", "WINDOW_RANGE", "ARM" >>

\* variant: the window is switched off, the generator is left as it is
cleanup_PSO_steps_window_only == << "WINDOW_OFF" >>

\* the commands of cleanup_PSO, in program order
cleanup_PSO_steps == << "WINDOW_OFF", "CONTROL_OFF" >>

\* the controller executes one PSO command
PsoCommand(p, cmd, w) ==
    CASE cmd = "RESET" -> PsoInit
      [] cmd = "OUTPUT_CONTROL" -> [p EXCEPT !.written = @ \cup {"output"}]
      [] cmd = "PULSE" -> [p EXCEPT !.written = @ \cup {"pulse"}]
      [] cmd = "OUTPUT_WINDOW_MASK" ->
            [p EXCEPT !.written = @ \cup {"mask"}, !.windowMask = TRUE]
      [] cmd = "TRACK_INPUT" -> [p EXCEPT !.written = @ \cup {"track"}]
      [] cmd = "DISTANCE" ->
            [p EXCEPT !.written = @ \cup {"distance"},
                      !.distance = epics_pvs.EncoderPulsesPerStep]
      [] cmd = "WINDOW_INPUT" -> [p EXCEPT !.written = @ \cup {"wininput"}]
      [] cmd = "WINDOW_RANGE" ->
            [p EXCEPT !.written = @ \cup {"range"},
                      !.winStart = w.start - WindowMargin,
                      !.winEnd = w.end + WindowMargin]
      [] cmd = "ARM" -> [p EXCEPT !.armed = TRUE]
      [] cmd = "WINDOW_OFF" -> [p EXCEPT !.windowMask = FALSE]
      [] cmd = "CONTROL_OFF" -> [p EXCEPT !.armed = FALSE]
      [] OTHER -> p

\* the controller executes a sequence of PSO commands that take no argument
RECURSIVE PsoRun(_, _)
PsoRun(p, cmds) ==
    IF cmds = << >> THEN p
    ELSE PsoRun(PsoCommand(p, Head(cmds), [start |-> 0, end |-> 0]), Tail(cmds))

\* the stage executes one write of program_PSO
MotorCommand(m, cmd) ==
    CASE cmd = "SPEED_MAX" -> [m EXCEPT !.speed = max_rotation_speed]
      [] cmd = "MOVE_START" -> [m EXCEPT !.pos = rotation_start, !.target = rotation_start]
      [] cmd = "SPEED_SCAN" -> [m EXCEPT !.speed = motor_speed]
      [] OTHER -> m

\* one step of program_PSO
program_PSO ==
    /\ pc = "program_PSO"
    /\ psoIdx \in 1..Len(program_PSO_steps)
    /\ LET cmd == program_PSO_steps[psoIdx]
           senses == compute_senses
           w == Window(epics_pvs.EncoderPulsesPerStep, num_angles, senses[1])
       IN  /\ pso' = PsoCommand(pso, cmd, w)
           /\ motor' = MotorCommand(motor, cmd)
           /\ plan' = IF cmd = "WINDOW_RANGE"
                      THEN [plan EXCEPT !.window_start = w.start, !.window_end = w.end,
                                        !.overall_sense = senses[1], !.windowed = TRUE]
                      ELSE plan
           /\ hist' = [hist EXCEPT !.psoLog = Append(@, cmd)]
    /\ IF psoIdx = Len(program_PSO_steps)
       THEN pc' = "begin_capture" /\ psoIdx' = 0
       ELSE pc' = pc /\ psoIdx' = psoIdx + 1
    /\ UNCHANGED << epics_pvs, requested_range, geomVars, cam, camQueue, sampleIn,
                    phase, stm, faults >>

\* one command of cleanup_PSO
cleanup_PSO ==
    /\ pc = "cleanup_PSO"
    /\ psoIdx \in 1..Len(cleanup_PSO_steps)
    /\ pso' = PsoCommand(pso, cleanup_PSO_steps[psoIdx], [start |-> 0, end |-> 0])
    /\ IF psoIdx = Len(cleanup_PSO_steps)
       THEN /\ pc' = "end_sample"
            /\ psoIdx' = 0
            /\ hist' = [hist EXCEPT !.endSteps = Append(@, "cleanup")]
       ELSE /\ pc' = pc
            /\ psoIdx' = psoIdx + 1
            /\ hist' = hist
    /\ UNCHANGED << epics_pvs, requested_range, geomVars, cam, camQueue, motor,
                    sampleIn, phase, stm, plan, faults >>

\* ------------------------------------------------------------ scan driver
\* numbers of dark and flat field images (base class settings)
num_dark_fields == 2
num_flat_fields == 3

\* the driver starts a scan
StartScan ==
    /\ pc = "idle"
    /\ phase' = "Preparing"
    /\ pc' = "begin_scan"
    /\ hist' = HistInit
    /\ plan' = PlanInit
    /\ UNCHANGED << epics_pvs, requested_range, geomVars, hwVars, stm, psoIdx,
                    faults >>

\* base class begin_scan: the scan settings are read from their control
\* points; the requested range, an input of its own to the planner, ends at
\* the last angle or one step beyond it
super_begin_scan ==
    /\ pc = "begin_scan"
    /\ rotation_start' = epics_pvs.RotationStart
    /\ rotation_step' = epics_pvs.RotationStep
    /\ num_angles' = epics_pvs.NumAngles
    /\ \E steps \in {epics_pvs.NumAngles - 1, epics_pvs.NumAngles} :
          rotation_stop' = epics_pvs.RotationStart
                             + requested_range * steps * epics_pvs.RotationStep
    /\ pc' = "begin_speed"
    /\ UNCHANGED << epics_pvs, requested_range, motor_speed, hwVars, phase, stm,
                    psoIdx, plan, faults, hist >>

\* begin_scan after the base class method: the speed of the rotation motor
begin_scan ==
    /\ pc = "begin_speed"
    /\ motor_speed' = [num |-> rotation_step, den |-> compute_frame_time]
    /\ pc' = "compute_positions"
    /\ UNCHANGED << epics_pvs, requested_range, rotation_start, rotation_step,
                    rotation_stop, num_angles, hwVars, phase, stm, psoIdx, plan,
                    faults, hist >>

\* begin_scan after program_PSO: the file plugin starts capturing
begin_scan_capture ==
    /\ pc = "begin_capture"
    /\ cam' = CamApply(CamFlush(cam, camQueue),
                       W("FPNumCapture", num_angles + num_dark_fields + num_flat_fields, TRUE))
    /\ camQueue' = << W("FPCapture", "Capture", FALSE) >>
    /\ pc' = "driver_dark"
    /\ UNCHANGED << epics_pvs, requested_range, geomVars, pso, motor, sampleIn,
                    phase, stm, psoIdx, plan, faults, hist >>

\* the driver collects dark fields, or none
DriverDark ==
    /\ pc = "driver_dark"
    /\ \/ pc' = "collect_dark_fields" /\ phase' = "CollectingDark"
       \/ pc' = "driver_flat" /\ phase' = phase
    /\ UNCHANGED << epics_pvs, requested_range, geomVars, hwVars, stm, psoIdx,
                    plan, faults, hist >>

\* the driver collects flat fields, or none
DriverFlat ==
    /\ pc = "driver_flat"
    /\ \/ pc' = "collect_flat_fields" /\ phase' = "CollectingFlat"
       \/ pc' = "collect_projections" /\ phase' = phase
    /\ UNCHANGED << epics_pvs, requested_range, geomVars, hwVars, stm, psoIdx,
                    plan, faults, hist >>

\* wait_camera_done: the acquisition-complete signal arrives in time
CameraDone == cam.CamAcquire = "Done" /\ camQueue = << >>

\* ------------------------------------------------------------ static frames
collect_dark_fields ==
    /\ pc = "collect_dark_fields"
    /\ hist' = [hist EXCEPT !.num_frames = num_dark_fields]
    /\ pc' = "collect_static_frames"
    /\ UNCHANGED << epics_pvs, requested_range, geomVars, hwVars, phase, stm,
                    psoIdx, plan, faults >>

\* the base class method moves the sample carrier out of the beam
collect_flat_fields ==
    /\ pc = "collect_flat_fields"
    /\ sampleIn' = FALSE
    /\ hist' = [hist EXCEPT !.num_frames = num_flat_fields]
    /\ pc' = "collect_static_frames"
    /\ UNCHANGED << epics_pvs, requested_range, geomVars, cam, camQueue, pso,
                    motor, phase, stm, psoIdx, plan, faults >>

collect_static_frames ==
    /\ pc = "collect_static_frames"
    /\ CallSetTriggerMode("Internal", hist.num_frames, "csf_acquire", hist)
    /\ UNCHANGED << epics_pvs, requested_range, geomVars, hwVars, phase, psoIdx,
                    plan, faults >>

\* variant: the margin of the projection wait is used
StaticWaitTimeout_long(num_frames) == compute_frame_time * num_frames + 60000

\* the time, in ms, collect_static_frames allows the camera: collection
\* time plus 5 s
StaticWaitTimeout(num_frames) == compute_frame_time * num_frames + 5000

\* the time, in ms, collect_projections allows the camera: collection time
\* plus 60 s
ProjectionWaitTimeout == num_angles * compute_frame_time + 60000

collect_static_frames_acquire ==
    /\ pc = "csf_acquire"
    /\ CamPut(W("CamAcquire", "Acquire", FALSE))
    /\ hist' = [hist EXCEPT !.wait_timeout = StaticWaitTimeout(hist.num_frames)]
    /\ pc' = "csf_wait"
    /\ UNCHANGED << epics_pvs, requested_range, geomVars, pso, motor, sampleIn,
                    phase, stm, psoIdx, plan, faults >>

\* variant: a wait that timed out returns like one that did not
collect_static_frames_wait_swallowed ==
    /\ pc = "csf_wait"
    /\ \/ /\ pc' = IF phase = "CollectingDark" THEN "driver_flat"
                   ELSE "collect_projections"
          /\ UNCHANGED << phase, stm, psoIdx, hist >>
       \/ Raise("abort", hist)
    /\ UNCHANGED << epics_pvs, requested_range, geomVars, hwVars, plan, faults >>

collect_static_frames_wait ==
    /\ pc = "csf_wait"
    /\ \/ /\ CameraDone
          /\ pc' = IF phase = "CollectingDark" THEN "driver_flat"
                   ELSE "collect_projections"
          /\ UNCHANGED << phase, stm, psoIdx, hist >>
       \/ Raise("timeout", hist)
       \/ Raise("abort", hist)
    /\ UNCHANGED << epics_pvs, requested_range, geomVars, hwVars, plan, faults >>

\* ------------------------------------------------------------ projections
\* base class collect_projections: the sample carrier is moved into the beam
super_collect_projections ==
    /\ pc = "collect_projections"
    /\ sampleIn' = TRUE
    /\ phase' = "Taxiing"
    /\ pc' = "cp_taxi"
    /\ hist' = [hist EXCEPT !.collecting = TRUE]
    /\ UNCHANGED << epics_pvs, requested_range, geomVars, cam, camQueue, pso,
                    motor, stm, psoIdx, plan, faults >>

\* taxi before starting capture, then the camera is set to external triggering
collect_projections ==
    /\ pc = "cp_taxi"
    /\ motor' = [motor EXCEPT !.pos = epics_pvs.startTaxi,
                              !.target = epics_pvs.startTaxi]
    /\ CallSetTriggerMode("PSOExternal", num_angles, "cp_acquire", hist)
    /\ UNCHANGED << epics_pvs, requested_range, geomVars, cam, camQueue, pso,
                    sampleIn, phase, psoIdx, plan, faults >>

\* start the camera
collect_projections_acquire ==
    /\ pc = "cp_acquire"
    /\ CamPut(W("CamAcquire", "Acquire", FALSE))
    /\ phase' = "Exposing"
    /\ pc' = "cp_fly"
    /\ UNCHANGED << epics_pvs, requested_range, geomVars, pso, motor, sampleIn,
                    stm, psoIdx, plan, faults, hist >>

\* start fly scan
collect_projections_fly ==
    /\ pc = "cp_fly"
    /\ motor' = [motor EXCEPT !.target = epics_pvs.endTaxi]
    /\ hist' = [hist EXCEPT !.wait_timeout = ProjectionWaitTimeout]
    /\ pc' = "cp_wait"
    /\ UNCHANGED << epics_pvs, requested_range, geomVars, cam, camQueue, pso,
                    sampleIn, phase, stm, psoIdx, plan, faults >>

collect_projections_wait ==
    /\ pc = "cp_wait"
    /\ \/ /\ CameraDone
          /\ pc' = "end_scan"
          /\ phase' = "Completing"
          /\ hist' = [hist EXCEPT !.termination = "normal"]
          /\ UNCHANGED << stm, psoIdx >>
       \/ Raise("timeout", hist)
       \/ Raise("abort", hist)
    /\ UNCHANGED << epics_pvs, requested_range, geomVars, hwVars, plan, faults >>

\* --------------------------------------------------------------- end_scan
\* the steps of the End phase
EndSteps == << "save", "freerun", "speed", "cleanup", "samplein", "base" >>

\* the data save location is read
end_scan ==
    /\ pc = "end_scan"
    /\ pc' = "end_save"
    /\ UNCHANGED << epics_pvs, requested_range, geomVars, hwVars, phase, stm,
                    psoIdx, plan, faults, hist >>

\* variant: a snapshot that could not be written ends end_scan
end_scan_save_fatal ==
    /\ pc = "end_save"
    /\ \E saved \in BOOLEAN :
          LET h == [hist EXCEPT !.saveFailed = ~saved, !.endSteps = Append(@, "save")]
          IN  IF saved
              THEN CallSetTriggerMode("FreeRun", 1, "end_speed", h) /\ UNCHANGED << phase, psoIdx >>
              ELSE Raise("error", h)
    /\ UNCHANGED << epics_pvs, requested_range, geomVars, hwVars, plan, faults >>

\* save_configuration returns whether or not the snapshot was written; then
\* the camera is put back in FreeRun mode
end_scan_save ==
    /\ pc = "end_save"
    /\ \E saved \in BOOLEAN :
          CallSetTriggerMode("FreeRun", 1, "end_speed",
                             [hist EXCEPT !.saveFailed = ~saved,
                                          !.endSteps = Append(@, "save")])
    /\ UNCHANGED << epics_pvs, requested_range, geomVars, hwVars, phase, psoIdx,
                    plan, faults >>

\* set the rotation speed to maximum
end_scan_speed ==
    /\ pc = "end_speed"
    /\ motor' = [motor EXCEPT !.speed = max_rotation_speed]
    /\ hist' = [hist EXCEPT !.endSteps = Append(@, "speed")]
    /\ pc' = "cleanup_PSO"
    /\ psoIdx' = 1
    /\ UNCHANGED << epics_pvs, requested_range, geomVars, cam, camQueue, pso,
                    sampleIn, phase, stm, plan, faults >>

\* move the sample in
end_scan_sample ==
    /\ pc = "end_sample"
    /\ sampleIn' = TRUE
    /\ hist' = [hist EXCEPT !.endSteps = Append(@, "samplein")]
    /\ pc' = "end_base"
    /\ UNCHANGED << epics_pvs, requested_range, geomVars, cam, camQueue, pso,
                    motor, phase, stm, psoIdx, plan, faults >>

\* base class end_scan: the scan is reported complete
super_end_scan ==
    /\ pc = "end_base"
    /\ hist' = [hist EXCEPT !.endSteps = Append(@, "base"), !.endResult = "ok"]
    /\ phase' = "Idle"
    /\ pc' = "idle"
    /\ UNCHANGED << epics_pvs, requested_range, geomVars, hwVars, stm, psoIdx,
                    plan, faults >>

\* ---------------------------------------------------------- specification
Next ==
    \/ StartScan
    \/ super_begin_scan
    \/ begin_scan
    \/ compute_positions_PSO
    \/ program_PSO
    \/ begin_scan_capture
    \/ DriverDark
    \/ DriverFlat
    \/ collect_dark_fields
    \/ collect_flat_fields
    \/ collect_static_frames
    \/ collect_static_frames_acquire
    \/ collect_static_frames_wait
    \/ super_collect_projections
    \/ collect_projections
    \/ collect_projections_acquire
    \/ collect_projections_fly
    \/ collect_projections_wait
    \/ set_trigger_mode
    \/ end_scan
    \/ end_scan_save
    \/ end_scan_speed
    \/ cleanup_PSO
    \/ end_scan_sample
    \/ super_end_scan
    \/ BusFault
    \/ CameraDeliver
    \/ CameraComplete
    \/ MotorArrive

Spec == Init /\ [][Next]_vars

\* the planner and the programmer alone, over every request
Replan ==
    /\ pc = "begin_capture"
    /\ pc' = "idle"
    /\ phase' = "Idle"
    /\ UNCHANGED << epics_pvs, requested_range, geomVars, hwVars, stm, psoIdx,
                    plan, faults, hist >>

InitPlan == InitWith(AllRequests)

NextPlan ==
    \/ StartScan
    \/ super_begin_scan
    \/ begin_scan
    \/ compute_positions_PSO
    \/ program_PSO
    \/ Replan

SpecPlan == InitPlan /\ [][NextPlan]_vars

TypeOK ==
    /\ pc \in STRING
    /\ phase \in {"Idle", "Preparing", "CollectingDark", "CollectingFlat",
                  "Taxiing", "Exposing", "Completing"}
    /\ faults \in 0..MaxFaults

\* ================================================================= claims

\* C1: however projection collection ends (normal completion, exposure-wait
\* timeout, bus-write failure, external abort), the End phase runs in full:
\* FreeRun is restored, the rotation speed is back at the maximum, the pulse
\* generator is cleaned up and the sample carrier is in, so that the scan is
\* never back at Idle with the generator armed or the camera in
\* external-trigger mode.
C1_EndRunsInFull ==
    (pc = "idle" /\ hist.collecting /\ hist.termination # "none") =>
        /\ \A k \in {"freerun", "speed", "cleanup", "samplein"} :
              \E i \in 1..Len(hist.endSteps) : hist.endSteps[i] = k
        /\ ~pso.armed
        /\ cam.CamTriggerMode = "Off"
        /\ motor.speed = max_rotation_speed
        /\ sampleIn

\* the mode-specific control points of the camera
ModePvs == {"CamImageMode", "CamTriggerMode", "CamTriggerSource", "CamNumImages"}

\* C2: for every target mode and from every prior camera state,
\* set_trigger_mode first writes the acquisition stop (CamAcquire = Done)
\* as a blocking write, and no mode-specific write is issued before the
\* stop has been acknowledged: the first write of every call is the
\* blocking stop, and when the second write is about to be issued the
\* camera has stopped and no write is in flight.
C2_StopBeforeModeWrites ==
    /\ hist.writes # << >> =>
          /\ hist.writes[1].pv = "CamAcquire"
          /\ hist.writes[1].val = "Done"
          /\ hist.writes[1].wait
    /\ \A i \in 1..Len(hist.writes) : hist.writes[i].pv \in ModePvs => i > 1
    /\ (pc = "set_trigger_mode" /\ stm.i = 2) =>
          cam.CamAcquire = "Done" /\ camQueue = << >>

\* C2 witness: a transition to Internal, requested while the camera was
\* still in external-trigger mode, has had its stop acknowledged and is
\* about to issue its first mode-specific write.
C2_Witness ==
    /\ pc = "set_trigger_mode"
    /\ stm.mode = "Internal"
    /\ stm.i = 2
    /\ Len(hist.writes) = 1
    /\ cam.CamTriggerMode = "On"

\* position of the first write of pv with value val in a log, 0 if none
FirstWrite(log, pv, val) ==
    IF \E i \in 1..Len(log) : log[i].pv = pv /\ log[i].val = val
    THEN CHOOSE i \in 1..Len(log) :
            /\ log[i].pv = pv /\ log[i].val = val
            /\ \A j \in 1..(i - 1) : ~(log[j].pv = pv /\ log[j].val = val)
    ELSE 0

\* C3: in the external-PSO transition external triggering is switched off
\* before any other mode-specific write, the trigger source and the image
\* count are written while triggering is off, the write that switches
\* triggering on is the last write of the transition, and in every
\* intermediate state of the transition the camera has external triggering
\* disabled.
C3_TriggerOnLast ==
    stm.mode = "PSOExternal" =>
        LET log == hist.writes
            on == FirstWrite(log, "CamTriggerMode", "On")
        IN  /\ Len(log) >= 2 =>
                  log[2].pv = "CamTriggerMode" /\ log[2].val = "Off" /\ log[2].wait
            /\ \A i \in 1..Len(log) :
                  log[i].pv \in {"CamTriggerSource", "CamNumImages"} =>
                     /\ i > 2
                     /\ log[i].wait
                     /\ on = 0 \/ i < on
            /\ on # 0 => on = Len(log) /\ pc # "set_trigger_mode"
            /\ (pc = "set_trigger_mode" /\ stm.i >= 3) => cam.CamTriggerMode = "Off"

\* C3 witness: an external-PSO transition has completed: ten writes, the
\* last one switching triggering on, image count equal to the angle count.
C3_Witness ==
    /\ stm.mode = "PSOExternal"
    /\ pc = "cp_acquire"
    /\ Len(hist.writes) = 10
    /\ cam.CamTriggerMode = "On"
    /\ cam.CamNumImages = num_angles

\* the parameters program_PSO writes before it arms the generator
PsoParameters ==
    {"OUTPUT_CONTROL", "PULSE", "OUTPUT_WINDOW_MASK", "TRACK_INPUT", "DISTANCE",
     "WINDOW_INPUT", "WINDOW_RANGE"}

\* C4: during program_PSO, from any generator state (also still armed after
\* an aborted scan), the generator is never armed between entry to
\* program_PSO and the final ARM command, so that programming which stops
\* at a failed write leaves it not armed; and ARM is issued only after
\* output source, pulse shape, window mask, encoder input, pulse spacing,
\* window input and window range have all been written.
C4_NeverArmedWhileProgramming ==
    /\ pc = "program_PSO" => ~pso.armed
    /\ \A i \in 1..Len(hist.psoLog) :
          hist.psoLog[i] = "ARM" =>
             \A c \in PsoParameters : \E j \in 1..(i - 1) : hist.psoLog[j] = c

\* C5: for every pulse spacing the planner publishes to the programmer,
\* every num_angles and both signs of overall_sense, the window bounds
\* computed by program_PSO satisfy window_start < window_end in raw
\* encoder counts.
C5_WindowOrdered ==
    plan.windowed =>
        /\ plan.window_start < plan.window_end
        /\ pso.winStart < pso.winEnd

\* C5 witness: program_PSO has computed the window of a scan of more than
\* one angle whose overall sense is negative.
C5_Witness ==
    /\ plan.windowed
    /\ plan.overall_sense < 0
    /\ num_angles > 1
    /\ epics_pvs.EncoderPulsesPerStep > 1

\* C6: in every sequence of coordinator operations the generator is
\* programmed and armed before the camera's trigger mode is switched to
\* external PSO: in no reachable state is external triggering enabled on
\* the camera while the generator is not armed.
C6_ArmedBeforeExternal ==
    cam.CamTriggerMode = "On" => pso.armed

\* C7: after the planner has run, rotation_stop recomputed as
\* rotation_start + (num_angles - 1) * rotation_step * user_direction is
\* the rotation_stop the published taxi-stop position was derived from:
\* endTaxi = recomputed rotation_stop + taxi_distance * user_direction.
C7_StopRoundTrip ==
    plan.ran =>
        /\ rotation_stop = rotation_start
                             + (num_angles - 1) * rotation_step * plan.user_direction
        /\ plan.stop_used = rotation_stop
        /\ epics_pvs.endTaxi = rotation_stop + plan.taxi_dist * plan.user_direction

\* C8: for every rotation step, motor speed and acceleration time the
\* planner accepts, taxi distance = m * step + step / 2 where m is the
\* least integer with m * step >= accel distance (m = ceil(accel / step)):
\* it is at least m * step and less than m * step plus one step; with
\* accel_time = 0 it is exactly half a step.
C8_TaxiDistance ==
    plan.ran =>
        LET step == rotation_step
            taxi2 == 2 * plan.taxi_dist
            m == (taxi2 - step) \div (2 * step)
        IN  /\ step > 0
            /\ taxi2 = (2 * m + 1) * step
            /\ m >= 0
            /\ m * step * plan.accel_den >= plan.accel_num
            /\ (m - 1) * step * plan.accel_den < plan.accel_num
            /\ taxi2 >= 2 * m * step
            /\ taxi2 < 2 * m * step + 2 * step
            /\ epics_pvs.RotationAccelTime = 0 => taxi2 = step

\* C8 witness: the planner has run with an acceleration distance that is
\* positive and not a whole number of steps, on a step it had to correct.
C8_Witness ==
    /\ plan.ran
    /\ plan.warned
    /\ plan.accel_num > 0
    /\ plan.accel_num % (plan.accel_den * rotation_step) # 0

\* C9: the pulse spacing the planner publishes (EncoderPulsesPerStep) is a
\* positive integer for every requested rotation step and pulses per
\* rotation, and the corrected rotation step is that integer divided by
\* the counts per degree (pulses_per_rotation / 360).
C9_PositiveSpacing ==
    plan.published =>
        /\ epics_pvs.EncoderPulsesPerStep > 0
        /\ rotation_step * epics_pvs.PSOPulsesPerRotation
              = epics_pvs.EncoderPulsesPerStep * 360 * AngleDen

C11_EndStepsAllRun ==
    /\ Len(hist.endSteps) <= Len(EndSteps)
    /\ hist.endSteps = SubSeq(EndSteps, 1, Len(hist.endSteps))
    /\ (pc = "idle" /\ hist.endResult # "none") => hist.endSteps = EndSteps

\* C12: cleanup_PSO called from any generator state (never programmed,
\* partially programmed, armed, already cleaned up) leaves the generator
\* disarmed with windowed output off, and a second call in a row leaves
\* the state the first call left.
C12_CleanupIdempotent ==
    /\ pc = "end_sample" => ~pso.armed /\ ~pso.windowMask
    /\ (pc = "cleanup_PSO" /\ psoIdx = 1) =>
          LET once == PsoRun(pso, cleanup_PSO_steps)
          IN  /\ ~once.armed
              /\ ~once.windowMask
              /\ PsoRun(once, cleanup_PSO_steps) = once

\* C12 witness: cleanup_PSO has completed on a generator whose programming
\* stopped after the window mask was set and before it was armed.
C12_Witness ==
    /\ pc = "end_sample"
    /\ \E i \in 1..Len(hist.psoLog) : hist.psoLog[i] = "OUTPUT_WINDOW_MASK"
    /\ \A i \in 1..Len(hist.psoLog) : hist.psoLog[i] # "ARM"
    /\ ~pso.armed
    /\ ~pso.windowMask

\* C12 witnesses of the other entry states: cleanup_PSO is entered with the
\* generator armed, never programmed in this scan, and already cleaned up.
C12_EntryArmed == pc = "cleanup_PSO" /\ psoIdx = 1 /\ pso.armed /\ pso.windowMask
C12_EntryFresh == pc = "cleanup_PSO" /\ psoIdx = 1 /\ hist.psoLog = << >> /\ pso = PsoInit
C12_EntryCleaned ==
    /\ pc = "cleanup_PSO" /\ psoIdx = 1 /\ hist.psoLog = << >>
    /\ pso.written # {} /\ ~pso.armed /\ ~pso.windowMask

\* C13: the motor speed computed at Begin (rotation_step / per-frame time)
\* and written to the rotation-speed control point by the programmer never
\* exceeds the hardware maximum rotation speed, for every requested step
\* and per-frame time.
C13_SpeedWithinMax ==
    /\ SpeedLeq(motor_speed, max_rotation_speed)
    /\ SpeedLeq(motor.speed, max_rotation_speed)

\* the write that starts the camera has been issued: it is in flight or the
\* camera has processed it
AcquireIssued ==
    \/ cam.CamAcquire = "Acquire"
    \/ \E i \in 1..Len(camQueue) :
          camQueue[i].pv = "CamAcquire" /\ camQueue[i].val = "Acquire"

\* the order of the steps of projection collection, seen at the step that
\* issues the move to taxi-stop: the stage stands at taxi-start, the
\* external-PSO transition has issued all its writes, the last of them
\* switching triggering on, the camera start has been issued, the move
\* issued is the one to taxi-stop and the wait comes next
C14_OrderOfIssue ==
    [][ (pc = "cp_fly" /\ pc' = "cp_wait") =>
            /\ motor.pos = epics_pvs.startTaxi
            /\ motor.target = epics_pvs.startTaxi
            /\ stm.mode = "PSOExternal"
            /\ Len(hist.writes) = Len(set_trigger_mode_writes("PSOExternal", num_angles))
            /\ hist.writes[Len(hist.writes)].pv = "CamTriggerMode"
            /\ hist.writes[Len(hist.writes)].val = "On"
            /\ AcquireIssued
            /\ motor'.target = epics_pvs.endTaxi
            /\ motor'.pos = motor.pos ]_vars

\* C14: in projection collection the blocking move to taxi-start
\* completes, then the trigger mode is switched to external PSO, then
\* camera acquisition is started, then the single non-blocking move to
\* taxi-stop is issued, then the bounded wait begins; and the stage never
\* starts the taxi-stop move while the camera is not acquiring in
\* external-trigger mode.
C14_FlyOnlyWhileAcquiring ==
    [][ (pc = "cp_fly" /\ pc' = "cp_wait") =>
            /\ motor.pos = epics_pvs.startTaxi
            /\ stm.mode = "PSOExternal"
            /\ Len(hist.writes) = Len(set_trigger_mode_writes("PSOExternal", num_angles))
            /\ AcquireIssued
            /\ motor'.target = epics_pvs.endTaxi
            /\ cam.CamTriggerMode = "On"
            /\ cam.CamAcquire = "Acquire" ]_vars

\* C15: the planner rounds requested_step * counts_per_degree to the
\* nearest integer count and emits the rounding warning exactly when the
\* raw and the rounded count differ by more than 1e-4; in both cases it
\* proceeds without failing, publishes the rounded count as the pulse
\* spacing and rounded_count / counts_per_degree as the rotation step
\* (0.25 at 36000 pulses: 25 counts, no warning; 0.24999: 25 counts, a
\* warning, corrected step 0.25).  plan.raw_num / (360 * AngleDen) is the
\* raw count.
C15_RoundingWarning ==
    plan.published =>
        LET raw_den == 360 * AngleDen
            d == epics_pvs.EncoderPulsesPerStep
            err == Abs(plan.raw_num - d * raw_den)
        IN  /\ 2 * err <= raw_den
            /\ plan.warned <=> (err > raw_den \div 10000)
            /\ plan.ran
            /\ rotation_step * epics_pvs.PSOPulsesPerRotation = d * raw_den
            /\ epics_pvs.RotationStep = rotation_step
            /\ plan.raw_num = 25000 * 36000 => d = 25 /\ ~plan.warned
            /\ plan.raw_num = 24999 * 36000 =>
                  d = 25 /\ plan.warned /\ rotation_step = 25000

\* angle units per encoder count
UnitsPerCount == (360 * AngleDen) \div epics_pvs.PSOPulsesPerRotation

\* position along the direction of motion, in angle units from the arm
\* position, of the edge at which the programmed window (margins included)
\* opens for a stage that comes from taxi-start
OpeningEdge ==
    IF plan.planner_sense > 0 THEN pso.winStart * UnitsPerCount
    ELSE -(pso.winEnd * UnitsPerCount)

\* C16: the taxi-start position lies outside the programmed pulse window
\* (its 5-count margins included), and the distance from taxi-start to the
\* edge where the window opens is at least the acceleration distance, for
\* every pulse spacing, acceleration distance (zero included) and sense.
\* Taxi-start is plan.taxi_dist before the arm position.
C16_TaxiStartOutsideWindow ==
    plan.windowed =>
        /\ -plan.taxi_dist < OpeningEdge
        /\ (OpeningEdge + plan.taxi_dist) * plan.accel_den >= plan.accel_num

\* direction, in encoder counts, in which the stage travels from the
\* published taxi-start to the published taxi-stop
TravelSense ==
    (IF epics_pvs.endTaxi > epics_pvs.startTaxi THEN 1 ELSE -1)
        * (1 - epics_pvs.RotationDirection * 2) * encoder_dir

\* C19: within one scan, the direction sense the programmer uses to place
\* the pulse window (computed by _compute_senses inside program_PSO, after
\* the planner has overwritten rotation_stop) equals the direction sense
\* the planner used to place taxi-start and taxi-stop, for every
\* num_angles >= 1, so that the window lies on the side of the arm
\* position toward which the stage moves from taxi-start to taxi-stop: the
\* last pulse position in the direction of travel is inside the window
\* and, for more than one angle, its mirror image is not.
C19_SenseConsistent ==
    plan.windowed =>
        LET last == (num_angles - 1) * epics_pvs.EncoderPulsesPerStep * TravelSense
        IN  /\ plan.overall_sense = plan.planner_sense
            /\ plan.overall_sense = TravelSense
            /\ plan.window_start <= last /\ last <= plan.window_end
            /\ num_angles > 1 =>
                  ~(plan.window_start <= -last /\ -last <= plan.window_end)

\* the pulse positions inside the programmed window: the multiples of the
\* pulse spacing, counted from the arm position, between its bounds
WindowPulses ==
    LET K == MaxAngles + 2 * WindowMargin + 2
    IN  { k \in -K..K :
            /\ pso.winStart <= k * epics_pvs.EncoderPulsesPerStep
            /\ k * epics_pvs.EncoderPulsesPerStep <= pso.winEnd }

\* C20: the window programmed by program_PSO, its 5-count margins
\* included, contains exactly num_angles pulse positions (multiples of the
\* pulse spacing measured from the arm position at rotation_start), which
\* is the image count set on the camera in external PSO mode; no spacing
\* value makes the margins admit an extra position or exclude a wanted one.
C20_WindowHoldsNumAnglesPulses ==
    plan.windowed =>
        /\ Cardinality(WindowPulses) = num_angles
        /\ PSOExternalWrites(epics_pvs.ExternalTriggerSource, num_angles)[8].pv
              = "CamNumImages"
        /\ PSOExternalWrites(epics_pvs.ExternalTriggerSource, num_angles)[8].val
              = Cardinality(WindowPulses)

\* the positions of the scan thread right after a set_trigger_mode call
\* has returned
AfterSetTriggerMode == {"csf_acquire", "cp_acquire", "end_speed"}

C17_InternalFromExternal ==
    pc = "csf_acquire" /\ hist.writes[1].wait /\ cam.CamTriggerSource = "Line2"
C17_ExternalFromExternal ==
    /\ pc = "set_trigger_mode" /\ stm.mode = "PSOExternal" /\ stm.i = 1
    /\ cam.CamTriggerMode = "On"
C17_FreeRunFromFreeRun ==
    /\ pc = "end_speed" /\ hist.psoLog = << >> /\ cam.CamTriggerSource = "Software"
    /\ cam.CamNumImages = 1
C17_InternalFromInternal ==
    /\ pc = "csf_acquire" /\ phase = "CollectingFlat"
    /\ cam.CamNumImages = num_flat_fields

====
